---- MODULE Spec2Model ----
(***************************************************************************)
(* Model of make_transparent_blocks.py: the resource-pack builder.        *)
(*                                                                         *)
(* The program's state is the file system it reads and writes.  A file    *)
(* name is a sequence of one-character strings, so that glob("*.png"),    *)
(* Path.stem, str.lower, the substring test and Path.with_suffix are      *)
(* computed on the characters as the library computes them.  A path is a  *)
(* sequence of names from the root; the file system maps each existing    *)
(* path to a directory node or to a file node with its content.           *)
(***************************************************************************)
EXTENDS FiniteSets, Integers, Sequences, TLC

VARIABLES
    fs,       \* the file system: path -> node
    args,     \* argparse result: source_textures, output_pack, name, description, no_mcpack
    pc,       \* position of main: start, blocks, loop, manifest, icon, archive, done, error
    exc,      \* the exception that ended the run ("none" while running)
    todo,     \* names the glob of make_transparent_blocks has still to yield
    runs,     \* number of runs of main started so far
    fs0,      \* history: the file system when the current run started
    touched,  \* history: paths the current run created, replaced or deleted
    steps,    \* history: the steps of main the current run completed, in order
    drawn     \* number of values uuid.uuid4() has returned so far

vars == <<fs, args, pc, exc, todo, runs, fs0, touched, steps, drawn>>

----------------------------------------------------------------------------
(* Bounds of the model *)

\* main may be run this many times in a row on the same file system
MaxRuns == 2
\* number of entries of the source blocks folder
MaxSrcFiles == 2
\* number of entries already in the pack's textures/blocks folder
MaxStale == 1

----------------------------------------------------------------------------
(* Names, as character sequences *)

N_w == <<"w">>
N_src == <<"s","r","c">>
N_pack == <<"p","a","c","k">>
N_out_v1 == <<"o","u","t",".","v","1">>
N_blocks == <<"b","l","o","c","k","s">>
N_textures == <<"t","e","x","t","u","r","e","s">>
N_manifest_json == <<"m","a","n","i","f","e","s","t",".","j","s","o","n">>
N_pack_icon_png == <<"p","a","c","k","_","i","c","o","n",".","p","n","g">>
N_pack_mcpack == <<"p","a","c","k",".","m","c","p","a","c","k">>
N_pack_zip == <<"p","a","c","k",".","z","i","p">>

N_diamond_png == <<"d","i","a","m","o","n","d",".","p","n","g">>
N_DIAMOND_png == <<"D","I","A","M","O","N","D",".","p","n","g">>
N_dirt_png == <<"d","i","r","t",".","p","n","g">>
N_dirt_PNG == <<"d","i","r","t",".","P","N","G">>
N_diamond_txt == <<"d","i","a","m","o","n","d",".","t","x","t">>

DotPng == <<".","p","n","g">>
DotMcpack == <<".","m","c","p","a","c","k">>
DotZip == <<".","z","i","p">>
Diamond == <<"d","i","a","m","o","n","d">>

\* the names a blocks folder may hold in the model
TextureNames == {N_diamond_png, N_DIAMOND_png, N_dirt_png, N_dirt_PNG, N_diamond_txt}

----------------------------------------------------------------------------
(* str and pathlib *)

UpperToLower == [c \in {"A","D","G","I","M","N","O","P"} |->
                   CASE c = "A" -> "a" [] c = "D" -> "d" [] c = "G" -> "g"
                     [] c = "I" -> "i" [] c = "M" -> "m" [] c = "N" -> "n"
                     [] c = "O" -> "o" [] c = "P" -> "p"]

\* str.lower()
Lower(s) == [i \in 1..Len(s) |-> IF s[i] \in DOMAIN UpperToLower
                                    THEN UpperToLower[s[i]] ELSE s[i]]

\* needle in s
Contains(needle, s) ==
    \E i \in 1..(Len(s) - Len(needle) + 1) :
        SubSeq(s, i, i + Len(needle) - 1) = needle

\* str.rfind("."): the last position of a dot, 0 when there is none
RFindDot(s) ==
    LET dots == {i \in 1..Len(s) : s[i] = "."}
    IN  IF dots = {} THEN 0 ELSE CHOOSE i \in dots : \A j \in dots : j <= i

\* PurePath.suffix: from the last dot on, unless the dot leads or ends the name
Suffix(name) ==
    LET i == RFindDot(name)
    IN  IF 1 < i /\ i < Len(name) THEN SubSeq(name, i, Len(name)) ELSE <<>>

\* PurePath.stem
Stem(name) ==
    LET i == RFindDot(name)
    IN  IF 1 < i /\ i < Len(name) THEN SubSeq(name, 1, i - 1) ELSE name

\* PurePath.name of a path
BaseName(p) == p[Len(p)]

\* PurePath.parent
Parent(p) == SubSeq(p, 1, Len(p) - 1)

\* PurePath.with_suffix(suffix), on a path with a name
WithSuffix(p, suffix) ==
    LET name == BaseName(p)
        old  == Suffix(name)
        new  == IF old = <<>> THEN name \o suffix
                ELSE SubSeq(name, 1, Len(name) - Len(old)) \o suffix
    IN  Parent(p) \o <<new>>

\* fnmatch of the pattern "*.png", case-sensitive as on POSIX
MatchesStarPng(name) ==
    Len(name) >= Len(DotPng)
    /\ SubSeq(name, Len(name) - Len(DotPng) + 1, Len(name)) = DotPng

\* the working directory, and Path.resolve() of a relative path
Cwd == <<N_w>>
Resolve(p) == Cwd \o p

\* "diamond" in png_path.stem.lower()
IsDiamondCaseSensitive(name) == Contains(Diamond, Stem(name))
IsDiamond(name) == Contains(Diamond, Lower(Stem(name)))

----------------------------------------------------------------------------
(* File contents *)

\* Image.new("RGBA", (w, h), rgba), saved as PNG: one colour all over
Image(w, h, rgba) == [type |-> "png", size |-> <<w, h>>, rgba |-> rgba]
OpaqueImg == Image(16, 16, <<0, 0, 0, 255>>)
TransparentImg == Image(16, 16, <<0, 0, 0, 0>>)
IconImg == Image(256, 256, <<0, 0, 0, 0>>)
\* contents of textures that come from elsewhere
VisibleA == Image(16, 16, <<90, 200, 220, 255>>)
VisibleB == Image(16, 16, <<120, 120, 120, 255>>)
SuppliedIcon == Image(256, 256, <<10, 20, 30, 255>>)

FullyTransparent(data) == data.type = "png" /\ data.rgba[4] = 0

Dir == [kind |-> "dir"]
File(data) == [kind |-> "file", data |-> data]

----------------------------------------------------------------------------
(* The file system *)

Exists(f, p) == p \in DOMAIN f
IsDir(f, p) == p \in DOMAIN f /\ f[p].kind = "dir"
IsFile(f, p) == p \in DOMAIN f /\ f[p].kind = "file"

IsPrefix(p, q) == Len(p) <= Len(q) /\ SubSeq(q, 1, Len(p)) = p
Prefixes(p) == {SubSeq(p, 1, n) : n \in 0..Len(p)}

Put(f, p, node) == [q \in DOMAIN f \cup {p} |-> IF q = p THEN node ELSE f[q]]
Remove(f, p) == [q \in DOMAIN f \ {p} |-> f[q]]

\* the result of a call: the file system after it, the exception it raised,
\* the paths it created, replaced or deleted
Ok(f, w) == [fs |-> f, err |-> "none", wrote |-> w]
Raise(f, e, w) == [fs |-> f, err |-> e, wrote |-> w]

\* Path.mkdir(parents=True, exist_ok=True)
Mkdir(f, p) ==
    IF \E q \in Prefixes(p) \ {p} : IsFile(f, q) THEN Raise(f, "NotADirectoryError", {})
    ELSE IF IsFile(f, p) THEN Raise(f, "FileExistsError", {})
    ELSE LET new == {q \in Prefixes(p) : ~Exists(f, q)}
         IN  Ok([q \in DOMAIN f \cup new |-> IF q \in new THEN Dir ELSE f[q]], new)

\* open(p, "wb"), write, close
WriteFile(f, p, data) ==
    IF ~IsDir(f, Parent(p))
        THEN Raise(f, IF Exists(f, Parent(p)) THEN "NotADirectoryError"
                      ELSE "FileNotFoundError", {})
    ELSE IF IsDir(f, p) THEN Raise(f, "IsADirectoryError", {})
    ELSE Ok(Put(f, p, File(data)), {p})

\* shutil.copy2(src, dst): into dst when dst is a directory
Copy2(f, src, dst) ==
    LET to == IF IsDir(f, dst) THEN dst \o <<BaseName(src)>> ELSE dst
    IN  IF Exists(f, src) /\ to = src THEN Raise(f, "SameFileError", {})
        ELSE IF ~Exists(f, src) THEN Raise(f, "FileNotFoundError", {})
        ELSE IF IsDir(f, src) THEN Raise(f, "IsADirectoryError", {})
        ELSE WriteFile(f, to, f[src].data)

\* Path.glob("*.png"): the names of the entries of dir that match
GlobPng(f, dir) ==
    {BaseName(q) : q \in {r \in DOMAIN f : Len(r) = Len(dir) + 1 /\ Parent(r) = dir
                                           /\ MatchesStarPng(BaseName(r))}}

\* the tree below root, with paths relative to root
Subtree(f, root) ==
    LET below == {q \in DOMAIN f : IsPrefix(root, q) /\ q # root}
        rel(q) == SubSeq(q, Len(root) + 1, Len(q))
    IN  [r \in {rel(q) : q \in below} |-> f[root \o r]]

\* Path.unlink()
Unlink(f, p) ==
    IF ~Exists(f, p) THEN Raise(f, "FileNotFoundError", {})
    ELSE IF IsDir(f, p) THEN Raise(f, "IsADirectoryError", {})
    ELSE Ok(Remove(f, p), {p})

\* Path.rename(dst) of a file: dst, when it is a file, is replaced
RenameKeepingSource(f, src, dst) ==
    IF ~Exists(f, src) THEN Raise(f, "FileNotFoundError", {})
    ELSE IF IsDir(f, dst) THEN Raise(f, "IsADirectoryError", {})
    ELSE Ok(Put(f, dst, f[src]), {dst})
Rename(f, src, dst) ==
    IF ~Exists(f, src) THEN Raise(f, "FileNotFoundError", {})
    ELSE IF IsDir(f, dst) THEN Raise(f, "IsADirectoryError", {})
    ELSE Ok(Put(Remove(f, src), dst, f[src]), {src, dst})

\* b after a, when a raised nothing: the exception of either, the writes of both
Then(a, b) == IF a.err # "none" THEN a ELSE [b EXCEPT !.wrote = a.wrote \cup @]

\* a zip file: the entries by archive path
Zip(entries) == [type |-> "zip", entries |-> entries]

\* shutil.make_archive(base_name, "zip", root_dir): writes base_name + ".zip"
\* holding the directories and files below root_dir, by their path from it
\* (the archive lies outside root_dir in every call main makes)
MakeArchive(f, base_name, root_dir) ==
    LET zip_filename == Parent(base_name) \o <<BaseName(base_name) \o DotZip>>
    IN  IF ~IsDir(f, root_dir)
            THEN Raise(f, IF Exists(f, root_dir) THEN "NotADirectoryError"
                          ELSE "FileNotFoundError", {})
        ELSE WriteFile(f, zip_filename, Zip(Subtree(f, root_dir)))

----------------------------------------------------------------------------
(* The functions of make_transparent_blocks.py *)

\* make_transparent_blocks, up to the loop: the check of the source folder
\* and the creation of the target folder
MtbEnterMkdirFirst(f, source_blocks, target_blocks) ==
    LET m == Mkdir(f, target_blocks)
    IN  IF m.err # "none" THEN m
        ELSE IF ~IsDir(m.fs, source_blocks) THEN Raise(m.fs, "FileNotFoundError", m.wrote)
        ELSE m
MtbEnter(f, source_blocks, target_blocks) ==
    IF ~IsDir(f, source_blocks) THEN Raise(f, "FileNotFoundError", {})
    ELSE Mkdir(f, target_blocks)

\* make_transparent_blocks, the body of the loop for one png_path
MtbFile(f, source_blocks, target_blocks, name) ==
    LET png_path    == source_blocks \o <<name>>
        target_path == target_blocks \o <<name>>
    IN  IF IsDiamond(name) THEN Copy2(f, png_path, target_path)
        ELSE WriteFile(f, target_path, TransparentImg)

\* the manifest write_manifest serialises
Manifest(name, description, header_uuid, module_uuid) ==
    [type |-> "json", format_version |-> 2,
     header |-> [description |-> description, name |-> name, uuid |-> header_uuid,
                 version |-> <<1, 0, 0>>, min_engine_version |-> <<1, 16, 0>>],
     modules |-> <<[type |-> "resources", uuid |-> module_uuid, version |-> <<1, 0, 0>>]>>]

write_manifest(f, pack_root, name, description, header_uuid, module_uuid) ==
    LET m == Mkdir(f, pack_root)
    IN  Then(m, WriteFile(m.fs, pack_root \o <<N_manifest_json>>,
                          Manifest(name, description, header_uuid, module_uuid)))

write_default_icon_always(f, pack_root) ==
    WriteFile(f, pack_root \o <<N_pack_icon_png>>, IconImg)
write_default_icon(f, pack_root) ==
    LET icon_path == pack_root \o <<N_pack_icon_png>>
    IN  IF Exists(f, icon_path) THEN Ok(f, {})
        ELSE WriteFile(f, icon_path, IconImg)

\* the folder build_mcpack archives
ArchiveRootTextures(pack_root) == pack_root \o <<N_textures>>
ArchiveRoot(pack_root) == pack_root

build_mcpack_no_rename(f, pack_root, output_file) ==
    LET out      == WithSuffix(output_file, DotMcpack)
        temp_zip == WithSuffix(out, DotZip)
        a == MakeArchive(f, WithSuffix(temp_zip, <<>>), ArchiveRoot(pack_root))
        u == Then(a, IF Exists(a.fs, out) THEN Unlink(a.fs, out) ELSE Ok(a.fs, {}))
    IN  Then(u, RenameKeepingSource(u.fs, temp_zip, out))
build_mcpack(f, pack_root, output_file) ==
    LET out      == WithSuffix(output_file, DotMcpack)
        temp_zip == WithSuffix(out, DotZip)
        a == MakeArchive(f, WithSuffix(temp_zip, <<>>), ArchiveRoot(pack_root))
        u == Then(a, IF Exists(a.fs, out) THEN Unlink(a.fs, out) ELSE Ok(a.fs, {}))
    IN  Then(u, Rename(u.fs, temp_zip, out))

\* the paths main computes from its arguments
SourceRoot == Resolve(args.source_textures)
SourceBlocks == SourceRoot \o <<N_blocks>>
PackRoot == Resolve(args.output_pack)
TargetBlocks == PackRoot \o <<N_textures, N_blocks>>
McpackPath == WithSuffix(PackRoot, DotMcpack)

\* if not args.no_mcpack
WantsArchiveAlways(a) == TRUE
WantsArchive(a) == ~a.no_mcpack

----------------------------------------------------------------------------
(* Initial file systems and arguments *)

Over(f, g) == [x \in DOMAIN f \cup DOMAIN g |-> IF x \in DOMAIN f THEN f[x] ELSE g[x]]
Nothing == [x \in {} |-> Dir]

\* a folder's entries: up to max of the texture names, each with one of the nodes
EntrySets(max, nodes) ==
    UNION {[S -> nodes] : S \in {T \in SUBSET TextureNames : Cardinality(T) <= max}}
Entries(dir, E) == [p \in {dir \o <<n>> : n \in DOMAIN E} |-> E[BaseName(p)]]

SrcDir == Resolve(<<N_src>>)
PackDir == Resolve(<<N_pack>>)

\* w/src: missing, without blocks, with a file named blocks, or with a blocks
\* folder of texture files or of one directory
SourceTrees ==
    {Nothing, SrcDir :> Dir, (SrcDir :> Dir) @@ (SrcDir \o <<N_blocks>> :> File(VisibleA))}
    \cup {Over((SrcDir :> Dir) @@ (SrcDir \o <<N_blocks>> :> Dir),
               Entries(SrcDir \o <<N_blocks>>, E)) :
            E \in EntrySets(MaxSrcFiles, {File(VisibleA)})
                    \cup UNION {[{n} -> {Dir}] : n \in TextureNames}}

\* w/pack: missing, with a file named textures, or a pack folder of some earlier
\* build, with or without a supplied icon
PackTrees ==
    {Nothing, (PackDir :> Dir) @@ (PackDir \o <<N_textures>> :> File(VisibleB))}
    \cup {Over(Over((PackDir :> Dir) @@ (PackDir \o <<N_textures>> :> Dir)
                      @@ (PackDir \o <<N_textures, N_blocks>> :> Dir),
                    Entries(PackDir \o <<N_textures, N_blocks>>, E)), icon) :
            E \in EntrySets(MaxStale, {File(VisibleB), Dir}),
            icon \in {Nothing, PackDir \o <<N_pack_icon_png>> :> File(SuppliedIcon)}}

\* w/pack.mcpack and w/pack.zip of the user: both missing or both there
StaleArchive == Zip(<<N_manifest_json>> :> File(VisibleB))
UserZip == Zip(<<N_dirt_png>> :> File(VisibleA))
Siblings ==
    {Nothing, (Resolve(<<N_pack_mcpack>>) :> File(StaleArchive))
                @@ (Resolve(<<N_pack_zip>>) :> File(UserZip))}

Args == [source_textures : {<<N_src>>, <<N_pack, N_textures>>},
         output_pack : {<<N_pack>>, <<N_out_v1>>, <<N_src, N_out_v1>>},
         name : {"XRay Transparent Blocks Pack"},
         description : {"Hides all block textures except diamond-related ones."},
         no_mcpack : BOOLEAN]

\* uuid.uuid4(): the n-th value drawn, different from every value drawn before
Uuid4(n) == [uuid4 |-> n]

Init ==
    /\ args \in Args
    /\ \E src \in SourceTrees, pack \in PackTrees, sib \in Siblings :
          \* a tree the arguments do not name is left out
          /\ args.source_textures # <<N_src>> => src = Nothing
          /\ (args.source_textures = <<N_src>> /\ args.output_pack # <<N_pack>>)
                => pack = Nothing
          /\ args.output_pack # <<N_pack>> => sib = Nothing
          /\ fs = Over(Over(Over((<<>> :> Dir) @@ (Cwd :> Dir), src), pack), sib)
    /\ pc = "start"
    /\ exc = "none"
    /\ todo = {}
    /\ runs = 1
    /\ fs0 = fs
    /\ touched = {}
    /\ steps = <<>>
    /\ drawn = 0

----------------------------------------------------------------------------
(* main, step by step *)

\* a call returned r: go on at `next` or end the run with r's exception
Return(r, next, step) ==
    /\ fs' = r.fs
    /\ touched' = touched \cup r.wrote
    /\ IF r.err = "none"
          THEN pc' = next /\ exc' = "none" /\ steps' = steps \o step
          ELSE pc' = "error" /\ exc' = r.err /\ steps' = steps

\* lines 126-134: resolve the source folder and check that it exists
CheckSource ==
    /\ pc = "start"
    /\ IF ~IsDir(fs, SourceRoot)
          THEN pc' = "error" /\ exc' = "FileNotFoundError"
          ELSE pc' = "blocks" /\ exc' = "none"
    /\ UNCHANGED <<fs, args, todo, runs, fs0, touched, steps, drawn>>

\* lines 15-22: enter make_transparent_blocks and list the source PNGs
EnterBlocks ==
    /\ pc = "blocks"
    /\ LET r == MtbEnter(fs, SourceBlocks, TargetBlocks)
       IN  /\ Return(r, "loop", <<>>)
           /\ todo' = IF r.err = "none" THEN GlobPng(r.fs, SourceBlocks) ELSE {}
    /\ UNCHANGED <<args, runs, fs0, drawn>>

\* lines 22-29: one iteration of the loop, in whatever order the folder lists
OneTexture ==
    /\ pc = "loop"
    /\ \E name \in todo :
          /\ Return(MtbFile(fs, SourceBlocks, TargetBlocks, name), "loop", <<>>)
          /\ todo' = todo \ {name}
    /\ UNCHANGED <<args, runs, fs0, drawn>>

\* the loop is over: make_transparent_blocks returns
BlocksDone ==
    /\ pc = "loop"
    /\ todo = {}
    /\ pc' = "manifest"
    /\ steps' = steps \o <<"textures">>
    /\ UNCHANGED <<fs, args, exc, todo, runs, fs0, touched, drawn>>

\* line 140
WriteManifest ==
    /\ pc = "manifest"
    /\ Return(write_manifest(fs, PackRoot, args.name, args.description,
                             Uuid4(drawn + 1), Uuid4(drawn + 2)),
              "icon", <<"manifest">>)
    \* the two uuids are drawn once pack_root.mkdir has returned
    /\ drawn' = IF Mkdir(fs, PackRoot).err = "none" THEN drawn + 2 ELSE drawn
    /\ UNCHANGED <<args, todo, runs, fs0>>

\* line 141
WriteDefaultIcon ==
    /\ pc = "icon"
    /\ Return(write_default_icon(fs, PackRoot), "archive", <<"icon">>)
    /\ UNCHANGED <<args, todo, runs, fs0, drawn>>

\* lines 144-146, without --no-mcpack
BuildMcpack ==
    /\ pc = "archive"
    /\ WantsArchive(args)
    /\ Return(build_mcpack(fs, PackRoot, McpackPath), "done", <<"archive">>)
    /\ UNCHANGED <<args, todo, runs, fs0, drawn>>

\* line 144, with --no-mcpack
SkipMcpack ==
    /\ pc = "archive"
    /\ ~WantsArchive(args)
    /\ pc' = "done"
    /\ UNCHANGED <<fs, args, exc, todo, runs, fs0, touched, steps, drawn>>

\* the program is run again, with the same arguments, on what the last run left
RunAgain ==
    /\ pc \in {"done", "error"}
    /\ runs < MaxRuns
    /\ runs' = runs + 1
    /\ pc' = "start"
    /\ exc' = "none"
    /\ todo' = {}
    /\ fs0' = fs
    /\ touched' = {}
    /\ steps' = <<>>
    /\ UNCHANGED <<fs, args, drawn>>

Next ==
    \/ CheckSource
    \/ EnterBlocks
    \/ OneTexture
    \/ BlocksDone
    \/ WriteManifest
    \/ WriteDefaultIcon
    \/ BuildMcpack
    \/ SkipMcpack
    \/ RunAgain

Spec == Init /\ [][Next]_vars

----------------------------------------------------------------------------
(* Vocabulary of the properties *)

ManifestPath == PackRoot \o <<N_manifest_json>>
IconPath == PackRoot \o <<N_pack_icon_png>>
TempZipPath == WithSuffix(McpackPath, DotZip)

\* the names main's glob finds in the source folder as the run starts
SourcePngs == GlobPng(fs0, SourceBlocks)

\* the files directly inside the pack's textures/blocks
TargetTextures == {p \in DOMAIN fs : Len(p) > 0 /\ Parent(p) = TargetBlocks /\ IsFile(fs, p)}

\* a path named *.mcpack or *.zip
ArchiveNamed(p) == Len(p) > 0 /\ Suffix(BaseName(p)) \in {DotMcpack, DotZip}

\* what an archive of this run has to hold
HoldsThePack(data) ==
    /\ data.type = "zip"
    /\ <<N_manifest_json>> \in DOMAIN data.entries
    /\ <<N_pack_icon_png>> \in DOMAIN data.entries
    /\ \A name \in SourcePngs : <<N_textures, N_blocks, name>> \in DOMAIN data.entries

StepsInOrder ==
    steps = IF args.no_mcpack THEN <<"textures", "manifest", "icon">>
            ELSE <<"textures", "manifest", "icon", "archive">>

SourceMissing == ~IsDir(fs0, SourceRoot) \/ ~IsDir(fs0, SourceBlocks)

----------------------------------------------------------------------------
(* C1 *)

\* C1: when make_transparent_blocks returns, every source file named *.png has
\* a file of its name in the target folder: a copy of the source when the
\* lower-cased stem contains "diamond", the transparent 16x16 image otherwise,
\* whatever was at the target path before.
C1_EveryTextureRegenerated ==
    pc = "manifest" =>
        \A name \in SourcePngs :
            IsFile(fs0, SourceBlocks \o <<name>>) =>
                /\ IsFile(fs, TargetBlocks \o <<name>>)
                /\ fs[TargetBlocks \o <<name>>].data =
                      IF IsDiamond(name) THEN fs0[SourceBlocks \o <<name>>].data
                      ELSE TransparentImg

----------------------------------------------------------------------------
(* C2 *)

\* C2 as stated: after a successful run every file of textures/blocks that is
\* not diamond-related is fully transparent, whatever the pack folder held.
C2_NoVisibleNonDiamond ==
    pc = "done" =>
        \A p \in TargetTextures :
            ~IsDiamond(BaseName(p)) => FullyTransparent(fs[p].data)

\* C2 amended: after a successful run every source PNG that is not
\* diamond-related is a fully transparent file of textures/blocks, and a file
\* of textures/blocks that is neither diamond-related nor fully transparent is
\* one the run found there, has no source PNG of its name, and is as it was.
C2_SourceTexturesHidden ==
    pc = "done" =>
        /\ \A name \in SourcePngs :
              ~IsDiamond(name) =>
                  /\ IsFile(fs, TargetBlocks \o <<name>>)
                  /\ FullyTransparent(fs[TargetBlocks \o <<name>>].data)
        /\ \A p \in TargetTextures :
              (~IsDiamond(BaseName(p)) /\ ~FullyTransparent(fs[p].data)) =>
                  /\ BaseName(p) \notin SourcePngs
                  /\ p \in DOMAIN fs0
                  /\ fs0[p] = fs[p]

\* a successful run that hid a source texture and left a visible one it found
C2_Witness ==
    /\ pc = "done"
    /\ \E name \in SourcePngs : ~IsDiamond(name)
    /\ \E p \in TargetTextures : ~IsDiamond(BaseName(p)) /\ ~FullyTransparent(fs[p].data)

----------------------------------------------------------------------------
(* C3 *)

\* C3 as stated: a successful run did its steps once each and in order, and
\* whenever the .mcpack exists at its end it holds manifest.json, pack_icon.png
\* and textures/blocks/<name> for every source PNG.
C3_McpackHoldsThePack ==
    pc = "done" =>
        /\ StepsInOrder
        /\ Exists(fs, McpackPath) =>
              IsFile(fs, McpackPath) /\ HoldsThePack(fs[McpackPath].data)

\* C3 amended: a successful run did its steps once each and in order, and when
\* it ran without --no-mcpack the .mcpack exists at its end and holds
\* manifest.json, pack_icon.png and textures/blocks/<name> for every source PNG.
C3_BuiltMcpackHoldsThePack ==
    pc = "done" =>
        /\ StepsInOrder
        /\ ~args.no_mcpack =>
              IsFile(fs, McpackPath) /\ HoldsThePack(fs[McpackPath].data)

\* a run that built the archive of a pack with textures
C3_Witness ==
    /\ pc = "done"
    /\ ~args.no_mcpack
    /\ SourcePngs # {}
    /\ steps[Len(steps)] = "archive"

----------------------------------------------------------------------------
(* C4 *)

\* C4: when the source folder or its blocks folder is missing, the run ends
\* with FileNotFoundError and the file system is as it was: nothing is created
\* or modified at any point of the run.
C4_MissingSourceChangesNothing ==
    SourceMissing =>
        /\ fs = fs0
        /\ touched = {}
        /\ pc \in {"start", "blocks", "error"}
        /\ pc = "error" => exc = "FileNotFoundError"

\* a run that found the source folder, but no blocks folder in it
C4_Witness ==
    /\ pc = "error"
    /\ exc = "FileNotFoundError"
    /\ IsDir(fs0, SourceRoot)
    /\ ~IsDir(fs0, SourceBlocks)
    /\ ~Exists(fs, PackRoot)

----------------------------------------------------------------------------
(* C5 *)

\* C5: with --no-mcpack a run creates the pack folder and creates, replaces or
\* deletes no file named *.mcpack or *.zip; without it a successful run ends
\* with a .mcpack beside the pack folder that this run wrote, in place of any
\* file that was there.
C5_ArchiveOnlyOnRequest ==
    /\ args.no_mcpack =>
          /\ \A p \in DOMAIN fs \cup DOMAIN fs0 :
                (ArchiveNamed(p) /\ (IsFile(fs, p) \/ IsFile(fs0, p))) =>
                    /\ p \in DOMAIN fs /\ p \in DOMAIN fs0
                    /\ fs[p] = fs0[p]
                    /\ p \notin touched
          /\ pc = "done" =>
                /\ IsDir(fs, PackRoot)
                /\ IsDir(fs, TargetBlocks)
                /\ IsFile(fs, ManifestPath)
                /\ Exists(fs, IconPath)
    /\ (~args.no_mcpack /\ pc = "done") =>
          /\ IsFile(fs, McpackPath)
          /\ McpackPath \in touched
          /\ fs[McpackPath].data = Zip(Subtree(fs, PackRoot))

\* a run with --no-mcpack that ended beside an archive of the user
C5_Witness ==
    /\ pc = "done"
    /\ args.no_mcpack
    /\ IsFile(fs, McpackPath)
    /\ IsFile(fs, TempZipPath)

----------------------------------------------------------------------------
(* C6 *)

\* C6: write_default_icon never overwrites an icon: a pack_icon.png that is
\* there when a run starts is unchanged throughout it (so a second run keeps
\* the icon of the first), and one that is missing is the transparent 256x256
\* image once write_default_icon has returned.
C6_IconKept ==
    /\ Exists(fs0, IconPath) =>
          /\ Exists(fs, IconPath)
          /\ fs[IconPath] = fs0[IconPath]
          /\ IconPath \notin touched
    /\ (~Exists(fs0, IconPath) /\ pc \in {"archive", "done"}) =>
          /\ IsFile(fs, IconPath)
          /\ fs[IconPath].data = Image(256, 256, <<0, 0, 0, 0>>)

\* a second run that ended with the supplied icon still in place
C6_Witness ==
    /\ pc = "done"
    /\ runs = 2
    /\ IsFile(fs, IconPath)
    /\ fs[IconPath].data = SuppliedIcon

----------------------------------------------------------------------------
(* C7 *)

\* C7: when build_mcpack returns, the .mcpack is a zip of the pack folder as it
\* was when build_mcpack was called, by paths relative to the pack folder, and
\* nothing is left at the temporary .zip path.
C7_McpackIsThePackZipped ==
    [][(pc = "archive" /\ pc' = "done" /\ ~args.no_mcpack) =>
          /\ IsFile(fs', WithSuffix(McpackPath, DotMcpack))
          /\ fs'[WithSuffix(McpackPath, DotMcpack)].data = Zip(Subtree(fs, PackRoot))
          /\ ~Exists(fs', TempZipPath)]_vars

\* build_mcpack returned from a call made with a file at the temporary path
C7_Witness ==
    /\ pc = "done"
    /\ ~args.no_mcpack
    /\ Exists(fs0, TempZipPath)
    /\ IsFile(fs, McpackPath)

----------------------------------------------------------------------------
(* C8 *)

\* C8: a run only reads the source: whatever the output path, what is under
\* the source blocks folder stays as it was, and no copy of a diamond texture
\* fails for being a copy onto itself.
C8_SourceOnlyRead ==
    /\ \A p \in DOMAIN fs0 :
          (IsPrefix(SourceBlocks, p) /\ p # SourceBlocks) =>
              p \in DOMAIN fs /\ fs[p] = fs0[p]
    /\ exc # "SameFileError"

====
